---------------------------- MODULE Spec2Model ----------------------------
(***************************************************************************)
(* A model of chihaya's UDP tracker front end: connection IDs              *)
(* (server/udp/connection_id.go), the packet handler and request parsers   *)
(* (server/udp/protocol.go), the response writer and the serve loop        *)
(* (server/udp/writer.go), and the byte pool (pkg/bytepool).               *)
(*                                                                         *)
(* Byte slices are sequences over 0..255.  Times are Unix seconds; the     *)
(* model keeps them below 2^31, the range of TLC's integers.               *)
(***************************************************************************)
EXTENDS Integers, Sequences, FiniteSets, TLC

VARIABLES
    cid,      \* connection_id.go exercised directly: the last mint and check
    pa,       \* parseAnnounce exercised directly: its arguments and results
    wr,       \* a Writer exercised directly: the value written and the buffer
    tp,       \* Tracker.responsePool, and the responses its callers hold
    bp,       \* a BytePool and one read loop on it: the slices and the reads
    op,       \* handleOptionalParameters run step by step: its locals
    config,   \* Server.config: PrivateKey and AllowIPSpoofing
    now,      \* the wall clock read by time.Now(), Unix seconds
    known,    \* connection IDs clients have received in connect responses
    hp,       \* the last handlePacket call: its packet, source and results
    closing,  \* Server.closing is closed
    booted,   \* Server.booting is closed (s.sock is set)
    sock,     \* the UDP socket: "none", "open" or "closed"
    deadline, \* the socket's read deadline: "none", "future" or "past"
    wg,       \* Server.wg's counter
    rd,       \* the goroutine running Start/serve: its position and locals
    sup,      \* the goroutine Start spawns: "none", "running" or "done"
    workers,  \* the worker goroutines in flight: id -> record
    finished, \* the workers that have returned
    stop,     \* the goroutine calling Stop: "idle", "closed", "wait", "done"
    pool,     \* the 2048-byte pool of serve: buffers made, copies of each held
    nread     \* datagrams the reader has received so far

vars == <<cid, pa, wr, tp, bp, op, config, now, known, hp, closing, booted, sock, deadline, wg, rd, sup,
          workers, finished, stop, pool, nread>>

cidVars == <<cid>>
\* The variables of the specifications that exercise one unit directly.
unitVars == <<cid, pa, wr, tp, bp, op>>
hpVars == <<config, now, known, hp>>
srvVars == <<closing, booted, sock, deadline, wg, rd, sup, workers, finished,
             stop, pool, nread>>

-----------------------------------------------------------------------------
(* Bounds of the model. *)

\* The mint times tried are Base + 0 .. Base + MaxMintDelta.
MaxMintDelta == 12
\* The check times tried are Base + 0 .. Base + MaxCheckDelta.
MaxCheckDelta == 134
\* A wall-clock base of July 2016, so that all four timestamp bytes are used.
Epoch2016 == 1468800000
\* The clock of the packet handler advances MaxTicks times, by TickSeconds.
MaxTicks == 2
TickSeconds == 61
\* Connection IDs the clients keep from earlier connect responses.
MaxKnown == 1
\* Datagrams the read loop receives in one run.
MaxDatagrams == 2
\* Peers of each address family in a response handed to the Writer.
MaxPeers == 2
\* Every option section of up to MaxOptionBytes bytes is parsed.
MaxOptionBytes == 3
\* AnnounceResponse objects alive at once, pooled or held by callers.
MaxResponses == 2

-----------------------------------------------------------------------------
(* Bytes and big-endian integers (encoding/binary). *)

\* binary.BigEndian.PutUint32(buf, uint32(v)): the low 32 bits of v, most
\* significant byte first (\div and % round down, as two's complement does).
PutUint32(v) ==
    << (v \div 16777216) % 256, (v \div 65536) % 256, (v \div 256) % 256, v % 256 >>

\* binary.BigEndian.Uint32(b), for b[1] < 128 (values below 2^31).
Uint32(b) == ((b[1] * 256 + b[2]) * 256 + b[3]) * 256 + b[4]

\* binary.Write(w.buffer, binary.BigEndian, uint16)
PutUint16(v) == << (v \div 256) % 256, v % 256 >>

\* b[lo:hi] of Go: the bytes at 0-based offsets lo .. hi-1.
Slice(b, lo, hi) == SubSeq(b, lo + 1, hi)

\* b[i] of Go, 0-based.
At(b, i) == b[i + 1]

Zeros(n) == [i \in 1..n |-> 0]

-----------------------------------------------------------------------------
(* Addresses and keys. *)

\* net.IP values: 4-byte and 16-byte forms.
IPLoopback == <<127, 0, 0, 1>>
IPOther == <<10, 0, 0, 2>>
IPLoopback16 == Zeros(10) \o <<255, 255>> \o IPLoopback
IPv6Unspecified == Zeros(16)

IPs == <<IPLoopback, IPOther, IPLoopback16, IPv6Unspecified>>
IPSet == {IPs[i] : i \in 1..Len(IPs)}

\* Private keys (config private_key); the golden test uses the empty key.
Keys == <<"", "secret">>
KeySet == {Keys[i] : i \in 1..Len(Keys)}

IndexOf(seq, x) == CHOOSE i \in 1..Len(seq) : seq[i] = x

-----------------------------------------------------------------------------
(* server/udp/connection_id.go *)

\* ttl = 2 * time.Minute, in seconds
ttl == 120
\* maxClockSkew = 10 * time.Second, in seconds
maxClockSkew == 10

\* The first four bytes of HMAC-SHA256(key, ts || ip), idealised as free of
\* collisions: for one timestamp, distinct (key, ip) pairs get distinct tags,
\* and for one (key, ip) distinct timestamps get distinct tags.
\* The tag is the timestamp moved by a stride of 2^24 seconds per pair.
HmacTruncUnbound(key, ts, ip) == PutUint32(Uint32(ts) + 16777216 * IndexOf(Keys, key))
HmacTrunc(key, ts, ip) ==
    PutUint32(Uint32(ts)
              + 16777216 * ((IndexOf(Keys, key) - 1) * Len(IPs) + IndexOf(IPs, ip)))

\* NewConnectionID(ip, now, key)
NewConnectionIDLocalTime(ip, t, key) ==
    LET buf == PutUint32(t + 3600)
    IN  buf \o HmacTrunc(key, buf, ip)
NewConnectionID(ip, t, key) ==
    LET buf == PutUint32(t)
    IN  buf \o HmacTrunc(key, buf, ip)

\* ValidConnectionID(connectionID, ip, now, key).  A timestamp with its top
\* bit set is 2^31 or more, after every now + maxClockSkew of the model.
ValidNoSkewCheck(connectionID, ip, t, key) ==
    LET ts4 == Slice(connectionID, 0, 4)
    IN  IF At(connectionID, 0) >= 128 \/ t > Uint32(ts4) + ttl
        THEN FALSE
        ELSE HmacTrunc(key, ts4, ip) = Slice(connectionID, 4, 8)
ValidConnectionID(connectionID, ip, t, key) ==
    LET ts4 == Slice(connectionID, 0, 4)
    IN  IF At(connectionID, 0) >= 128
           \/ t > Uint32(ts4) + ttl \/ Uint32(ts4) > t + maxClockSkew
        THEN FALSE
        ELSE HmacTrunc(key, ts4, ip) = Slice(connectionID, 4, 8)

-----------------------------------------------------------------------------
(* tracker/tracker.go: errors and the tracker's two handlers. *)

NoErr == [isNil |-> TRUE, client |-> FALSE, msg |-> <<>>]
\* tracker.ClientError(msg): an error whose text may be shown to the client.
ClientError(m) == [isNil |-> FALSE, client |-> TRUE, msg |-> m]
\* Any other error value (errors.New, fmt.Errorf).
InternalError(m) == [isNil |-> FALSE, client |-> FALSE, msg |-> m]

\* "torrent not found", a client error of a middleware
MsgNotFound == <<116, 111, 114, 114, 101, 110, 116, 32, 110, 111, 116, 32, 102, 111,
                 117, 110, 100>>
\* "redis down", an internal error of a middleware
MsgRedisDown == <<114, 101, 100, 105, 115, 32, 100, 111, 119, 110>>

Peer4 == [IP |-> <<10, 0, 0, 9>>, Port |-> 6881]
Peer6a == [IP |-> Zeros(15) \o <<1>>, Port |-> 6881]
Peer6b == [IP |-> <<32, 1, 13, 184>> \o Zeros(11) \o <<2>>, Port |-> 51413]

\* chihaya.AnnounceResponse as the middleware chain leaves it; Interval is
\* held in milliseconds.
AnnounceResp(v4, v6) ==
    [Interval |-> 1800000, Incomplete |-> 3, Complete |-> 5,
     IPv4Peers |-> v4, IPv6Peers |-> v6]

\* What t.handleAnnounce / t.handleScrape (the middleware chain, which is
\* outside this repository's UDP package) may do with a request: the error it
\* returns and what it leaves in the response.
TrackerOutcomes ==
    { [err |-> NoErr, announce |-> AnnounceResp(<<Peer4>>, <<>>),
       files |-> <<[Complete |-> 5, Incomplete |-> 10]>>],
      [err |-> NoErr, announce |-> AnnounceResp(<<Peer4>>, <<Peer6a, Peer6b>>),
       files |-> <<>>],
      [err |-> NoErr, announce |-> AnnounceResp(<<>>, <<>>),
       files |-> <<[Complete |-> 0, Incomplete |-> 1],
                   [Complete |-> 100, Incomplete |-> 100]>>],
      [err |-> ClientError(MsgNotFound), announce |-> AnnounceResp(<<>>, <<>>),
       files |-> <<>>],
      [err |-> InternalError(MsgRedisDown), announce |-> AnnounceResp(<<>>, <<>>),
       files |-> <<>>] }

\* Tracker.HandleAnnounce(req): the response and error of the chain.
HandleAnnounce(req, mw) == [resp |-> mw.announce, err |-> mw.err]

\* Tracker.HandleScrape(req): the response and error of the chain.
HandleScrape(req, mw) == [resp |-> [Files |-> mw.files], err |-> mw.err]

-----------------------------------------------------------------------------
(* server/udp/writer.go: the response Writer.  A Writer is its buffer; the *)
(* transaction ID it was made with is passed along.                        *)

connectActionID == 0
announceActionID == 1
scrapeActionID == 2
errorActionID == 3
announceDualStackActionID == 4

\* "internal error occurred: "
MsgInternalPrefix == <<105, 110, 116, 101, 114, 110, 97, 108, 32, 101, 114, 114, 111,
                       114, 32, 111, 99, 99, 117, 114, 114, 101, 100, 58, 32>>

\* Writer.writeHeader(action)
writeHeaderNoTxID(buffer, txID, action) == buffer \o PutUint32(action)
writeHeader(buffer, txID, action) == buffer \o PutUint32(action) \o txID

\* Writer.WriteError(err)
WriteErrorVerbatim(buffer, txID, err) ==
    writeHeader(buffer, txID, errorActionID) \o err.msg \o <<0>>
WriteError(buffer, txID, err) ==
    LET text == IF err.client THEN err.msg ELSE MsgInternalPrefix \o err.msg
    IN  writeHeader(buffer, txID, errorActionID) \o text \o <<0>>

\* The peer records of one list: peer.IP followed by the port.
RECURSIVE WritePeers(_)
WritePeers(peers) ==
    IF peers = <<>> THEN <<>>
    ELSE Head(peers).IP \o PutUint16(Head(peers).Port) \o WritePeers(Tail(peers))

\* Writer.WriteAnnounceIPv6(resp)
WriteAnnounceIPv6(buffer, txID, resp) ==
    writeHeader(buffer, txID, announceDualStackActionID)
        \o PutUint32(resp.Interval \div 1000)
        \o PutUint32(resp.Incomplete)
        \o PutUint32(resp.Complete)
        \o PutUint32(Len(resp.IPv4Peers))
        \o PutUint32(Len(resp.IPv6Peers))
        \o WritePeers(resp.IPv4Peers)
        \o WritePeers(resp.IPv6Peers)

\* Writer.WriteAnnounceIPv4(resp)
WriteAnnounceIPv4(buffer, txID, resp) ==
    writeHeader(buffer, txID, announceActionID)
        \o PutUint32(resp.Interval \div 1000)
        \o PutUint32(resp.Incomplete)
        \o PutUint32(resp.Complete)
        \o WritePeers(resp.IPv4Peers)

\* Writer.WriteAnnounce(resp)
WriteAnnounceIfSeveralIPv6(buffer, txID, resp) ==
    IF Len(resp.IPv6Peers) > 1
    THEN WriteAnnounceIPv6(buffer, txID, resp)
    ELSE WriteAnnounceIPv4(buffer, txID, resp)
WriteAnnounce(buffer, txID, resp) ==
    IF Len(resp.IPv6Peers) > 0
    THEN WriteAnnounceIPv6(buffer, txID, resp)
    ELSE WriteAnnounceIPv4(buffer, txID, resp)

RECURSIVE WriteFiles(_)
WriteFiles(files) ==
    IF files = <<>> THEN <<>>
    ELSE PutUint32(Head(files).Complete) \o PutUint32(0)
             \o PutUint32(Head(files).Incomplete) \o WriteFiles(Tail(files))

\* Writer.WriteScrape(resp)
WriteScrape(buffer, txID, resp) ==
    writeHeader(buffer, txID, scrapeActionID) \o WriteFiles(resp.Files)

\* Writer.WriteConnectionID(connectionID)
WriteConnectionID(buffer, txID, connectionID) ==
    writeHeader(buffer, txID, connectActionID) \o connectionID

-----------------------------------------------------------------------------
(* net.ParseIP and net.IP.To4 / To16 of the Go library, on the characters  *)
(* of the string as bytes.  The nil IP is the empty sequence.              *)

NilIP == <<>>

IsDigit(c) == c >= 48 /\ c <= 57
IsHexDigit(c) == IsDigit(c) \/ (c >= 97 /\ c <= 102) \/ (c >= 65 /\ c <= 70)
HexVal(c) == IF IsDigit(c) THEN c - 48 ELSE IF c >= 97 THEN c - 87 ELSE c - 55

\* dtoi(s, i0): the decimal number at offset i0, the offset after it, ok.
RECURSIVE DtoiFrom(_, _, _)
DtoiFrom(s, i, n) ==
    IF i < Len(s) /\ IsDigit(At(s, i))
    THEN IF n * 10 + (At(s, i) - 48) >= 16777215
         THEN [n |-> 0, i |-> i, ok |-> FALSE]
         ELSE DtoiFrom(s, i + 1, n * 10 + (At(s, i) - 48))
    ELSE [n |-> n, i |-> i, ok |-> TRUE]

DtoiResult(r, i0) == IF r.ok /\ r.i = i0 THEN [n |-> 0, i |-> i0, ok |-> FALSE] ELSE r

Dtoi(s, i0) == DtoiResult(DtoiFrom(s, i0, 0), i0)

\* xtoi(s, 0): the hexadecimal number s starts with, its length, ok.
RECURSIVE XtoiFrom(_, _, _)
XtoiFrom(s, i, n) ==
    IF i < Len(s) /\ IsHexDigit(At(s, i))
    THEN IF n * 16 + HexVal(At(s, i)) >= 16777215
         THEN [n |-> 0, i |-> i, ok |-> FALSE]
         ELSE XtoiFrom(s, i + 1, n * 16 + HexVal(At(s, i)))
    ELSE [n |-> n, i |-> i, ok |-> TRUE]

Xtoi(s) == DtoiResult(XtoiFrom(s, 0, 0), 0)

\* parseIPv4(s): four decimal octets separated by dots; the 4 octets, or nil.
RECURSIVE ParseIPv4From(_, _, _)
ParseIPv4Octet(s, p, r) ==
    IF ~ r.ok \/ r.n > 255 THEN NilIP ELSE ParseIPv4From(s, r.i, Append(p, r.n))

ParseIPv4From(s, i, p) ==
    IF Len(p) = 4 THEN (IF i # Len(s) THEN NilIP ELSE p)
    ELSE IF i >= Len(s) THEN NilIP
    ELSE IF Len(p) > 0 /\ At(s, i) # 46 THEN NilIP
    ELSE ParseIPv4Octet(s, p, Dtoi(s, IF Len(p) > 0 THEN i + 1 ELSE i))

\* net.IPv4(a, b, c, d): the 16-byte form of an IPv4 address.
V4InV6(p) == Zeros(10) \o <<255, 255>> \o p

V4InV6OrNil(p) == IF p = NilIP THEN NilIP ELSE V4InV6(p)

ParseIPv4(s) == V4InV6OrNil(ParseIPv4From(s, 0, <<>>))

\* The end of parseIPv6: nothing may be left over, and an address shorter
\* than 16 bytes is widened with zeros at its ellipsis.
FinishIPv6(s, acc, ellipsis) ==
    IF Len(s) # 0 THEN NilIP
    ELSE IF Len(acc) < 16
         THEN IF ellipsis < 0 THEN NilIP
              ELSE Slice(acc, 0, ellipsis) \o Zeros(16 - Len(acc))
                       \o Slice(acc, ellipsis, Len(acc))
         ELSE IF ellipsis >= 0 THEN NilIP ELSE acc

\* The loop of parseIPv6: hex groups followed by colons.
RECURSIVE ParseIPv6Loop(_, _, _)

\* After a colon: a second colon is the ellipsis.
ParseIPv6Colon(s3, acc2, ellipsis) ==
    IF At(s3, 0) = 58
    THEN IF ellipsis >= 0 THEN NilIP
         ELSE IF Len(s3) = 1 THEN FinishIPv6(<<>>, acc2, Len(acc2))
         ELSE ParseIPv6Loop(Tail(s3), acc2, Len(acc2))
    ELSE ParseIPv6Loop(s3, acc2, ellipsis)

\* After a group is stored: the end of the string, or a colon and more.
ParseIPv6Rest(s2, acc2, ellipsis) ==
    IF Len(s2) = 0 THEN FinishIPv6(s2, acc2, ellipsis)
    ELSE IF At(s2, 0) # 58 \/ Len(s2) = 1 THEN NilIP
    ELSE ParseIPv6Colon(Tail(s2), acc2, ellipsis)

\* A trailing dotted IPv4 address fills the last four bytes.
ParseIPv6Dotted(acc, ellipsis, p) ==
    IF p = NilIP THEN NilIP ELSE FinishIPv6(<<>>, acc \o p, ellipsis)

\* One hex group x at the head of s.
ParseIPv6Group(s, acc, ellipsis, x) ==
    IF ~ x.ok \/ x.n > 65535 THEN NilIP
    ELSE IF x.i < Len(s) /\ At(s, x.i) = 46
    THEN IF (ellipsis < 0 /\ Len(acc) # 12) \/ Len(acc) + 4 > 16 THEN NilIP
         ELSE ParseIPv6Dotted(acc, ellipsis, ParseIPv4From(s, 0, <<>>))
    ELSE ParseIPv6Rest(Slice(s, x.i, Len(s)), acc \o <<x.n \div 256, x.n % 256>>,
                       ellipsis)

ParseIPv6Loop(s, acc, ellipsis) ==
    IF Len(acc) >= 16 THEN FinishIPv6(s, acc, ellipsis)
    ELSE ParseIPv6Group(s, acc, ellipsis, Xtoi(s))

\* parseIPv6(s, false)
ParseIPv6(s) ==
    IF Len(s) >= 2 /\ At(s, 0) = 58 /\ At(s, 1) = 58
    THEN IF Len(s) = 2 THEN Zeros(16)
         ELSE ParseIPv6Loop(Slice(s, 2, Len(s)), <<>>, 0)
    ELSE ParseIPv6Loop(s, <<>>, -1)

\* net.ParseIP(s): the first '.' or ':' decides the family.
RECURSIVE ParseIPFrom(_, _)
ParseIPFrom(s, i) ==
    IF i >= Len(s) THEN NilIP
    ELSE IF At(s, i) = 46 THEN ParseIPv4(s)
    ELSE IF At(s, i) = 58 THEN ParseIPv6(s)
    ELSE ParseIPFrom(s, i + 1)

ParseIP(s) == ParseIPFrom(s, 0)

\* ip.To4(): the 4-byte form of an IPv4 address, nil for any other.
To4(ip) ==
    IF Len(ip) = 4 THEN ip
    ELSE IF Len(ip) = 16 /\ Slice(ip, 0, 10) = Zeros(10)
            /\ At(ip, 10) = 255 /\ At(ip, 11) = 255
         THEN Slice(ip, 12, 16)
         ELSE NilIP

\* ip.To16(): the 16-byte form, nil for a nil or ill-sized ip.
To16(ip) ==
    IF Len(ip) = 4 THEN V4InV6(ip)
    ELSE IF Len(ip) = 16 THEN ip
    ELSE NilIP

-----------------------------------------------------------------------------
(* server/udp/protocol.go *)

optionEndOfOptions == 0
optionNOP == 1
optionURLData == 2
optionIPv6 == 3

\* initialConnectionID, the magic initial connection ID of BEP 15
initialConnectionID == <<0, 0, 4, 23, 39, 16, 25, 128>>

emptyIPv4 == Zeros(4)
emptyIPv6 == Zeros(16)

\* eventIDs: event.None, event.Completed, event.Started, event.Stopped
eventIDs == <<"none", "completed", "started", "stopped">>

\* "malformed packet"
errMalformedPacket ==
    ClientError(<<109, 97, 108, 102, 111, 114, 109, 101, 100, 32, 112, 97, 99, 107,
                  101, 116>>)
\* "malformed IP address"
errMalformedIP ==
    ClientError(<<109, 97, 108, 102, 111, 114, 109, 101, 100, 32, 73, 80, 32, 97,
                  100, 100, 114, 101, 115, 115>>)
\* "malformed event ID"
errMalformedEventAsIP ==
    ClientError(<<109, 97, 108, 102, 111, 114, 109, 101, 100, 32, 73, 80, 32, 97,
                  100, 100, 114, 101, 115, 115>>)
errMalformedEvent ==
    ClientError(<<109, 97, 108, 102, 111, 114, 109, 101, 100, 32, 101, 118, 101,
                  110, 116, 32, 73, 68>>)
\* "unknown action ID"
errUnknownAction ==
    ClientError(<<117, 110, 107, 110, 111, 119, 110, 32, 97, 99, 116, 105, 111,
                  110, 32, 73, 68>>)
\* "bad connection ID"
errBadConnectionID ==
    ClientError(<<98, 97, 100, 32, 99, 111, 110, 110, 101, 99, 116, 105, 111, 110,
                  32, 73, 68>>)

\* What handleOptionalParameters returns, with its last optionStartIndex, the
\* number of loop iterations and the highest packet offset it has read.
OptionsResult(ipv6, err, i, steps, top) ==
    [ipv6 |-> ipv6, err |-> err, index |-> i, steps |-> steps, top |-> top]

\* The loop of handleOptionalParameters from optionStartIndex = i, with the
\* IPv6 address found so far; steps counts the iterations, top is the
\* highest offset read so far.
RECURSIVE OptionsLoop(_, _, _, _, _, _)
OptionsLoop(cfg, packet, i, ipv6, steps, top) ==
    IF ~ (i < Len(packet) - 1)
    THEN OptionsResult(ipv6, NoErr, i, steps, top)
    ELSE
    LET option == At(packet, i)
    IN  CASE option = optionEndOfOptions ->
               OptionsResult(ipv6, NoErr, i, steps + 1, i)
          [] option = optionNOP ->
               OptionsLoop(cfg, packet, i + 1, ipv6, steps + 1, i)
          [] option = optionURLData ->
               IF i + 1 > Len(packet) - 1
               THEN OptionsResult(ipv6, errMalformedPacket, i, steps + 1, i)
               ELSE LET length == At(packet, i + 1)
                    IN  IF i + 1 + length > Len(packet) - 1
                        THEN OptionsResult(ipv6, errMalformedPacket, i, steps + 1,
                                           i + 1)
                        ELSE OptionsLoop(cfg, packet, i + 1 + length, ipv6,
                                         steps + 1, i + 1)
          [] option = optionIPv6 ->
               IF i + 19 > Len(packet) - 1
               THEN OptionsResult(ipv6, errMalformedPacket, i, steps + 1, i)
               ELSE LET ipv6bytes == Slice(packet, i + 1, i + 17)
                    IN  IF cfg.AllowIPSpoofing /\ ipv6bytes # emptyIPv6
                        THEN LET parsed == To16(ParseIP(ipv6bytes))
                             IN  IF parsed = NilIP
                                 THEN OptionsResult(parsed, errMalformedIP, i,
                                                    steps + 1, i + 16)
                                 ELSE OptionsLoop(cfg, packet, i + 19, parsed,
                                                  steps + 1, i + 16)
                        ELSE OptionsLoop(cfg, packet, i + 19, ipv6, steps + 1,
                                         i + 16)
          [] OTHER ->
               OptionsResult(ipv6, NoErr, i, steps + 1, i)

\* handleOptionalParameters(cfg, packet)
handleOptionalParameters(cfg, packet) ==
    IF Len(packet) <= 98
    THEN OptionsResult(NilIP, NoErr, 98, 0, 97)
    ELSE OptionsLoop(cfg, packet, 98, NilIP, 0, 97)

\* int32(binary.BigEndian.Uint32(b)): the two's-complement reading.
Int32Low31Bits(b) == (((b[1] % 128) * 256 + b[2]) * 256 + b[3]) * 256 + b[4]
Int32(b) ==
    ((((IF b[1] >= 128 THEN b[1] - 256 ELSE b[1]) * 256 + b[2]) * 256 + b[3]) * 256)
        + b[4]

NoRequest == [Event |-> "", InfoHash |-> <<>>, PeerID |-> <<>>, IPv4 |-> NilIP,
              IPv6 |-> NilIP, Port |-> 0, NumWant |-> 0, Left |-> <<>>,
              Downloaded |-> <<>>, Uploaded |-> <<>>]

\* parseAnnounce(cfg, packet, ip).  The three 64-bit counters are kept as
\* their 8 bytes.
parseAnnounce(cfg, packet, ip) ==
    IF Len(packet) < 98 THEN [req |-> NoRequest, err |-> errMalformedPacket]
    ELSE
    LET eventID == At(packet, 83)
        ipv4bytes == Slice(packet, 84, 88)
        ip1 == IF cfg.AllowIPSpoofing /\ ipv4bytes # emptyIPv4
               THEN ParseIP(ipv4bytes) ELSE ip
        ip2 == IF To4(ip1) # NilIP THEN To4(ip1) ELSE ip1
        wire == Int32(Slice(packet, 92, 96))
        numWant == IF wire <= 0 THEN 0 ELSE wire
        port == At(packet, 96) * 256 + At(packet, 97)
        opts == handleOptionalParameters(cfg, packet)
    IN  IF eventID > 3 THEN [req |-> NoRequest, err |-> errMalformedEvent]
        ELSE IF ip1 = NilIP THEN [req |-> NoRequest, err |-> errMalformedIP]
        ELSE IF ~ opts.err.isNil THEN [req |-> NoRequest, err |-> opts.err]
        ELSE [req |-> [Event |-> eventIDs[eventID + 1],
                       InfoHash |-> Slice(packet, 16, 36),
                       PeerID |-> Slice(packet, 36, 56),
                       IPv4 |-> ip2,
                       IPv6 |-> opts.ipv6,
                       Port |-> port,
                       NumWant |-> numWant,
                       Left |-> Slice(packet, 64, 72),
                       Downloaded |-> Slice(packet, 56, 64),
                       Uploaded |-> Slice(packet, 72, 80)],
              err |-> NoErr]

\* The infohashes of parseScrape: 20 bytes each while 20 bytes remain.
RECURSIVE InfoHashes(_)
InfoHashes(body) ==
    IF Len(body) >= 20
    THEN <<Slice(body, 0, 20)>> \o InfoHashes(Slice(body, 20, Len(body)))
    ELSE <<>>

\* parseScrape(cfg, packet)
parseScrape(cfg, packet) ==
    IF Len(packet) < 36 THEN [req |-> [InfoHashes |-> <<>>], err |-> errMalformedPacket]
    ELSE LET body == Slice(packet, 16, Len(packet))
         IN  IF Len(body) % 20 # 0
             THEN [req |-> [InfoHashes |-> <<>>], err |-> errMalformedPacket]
             ELSE [req |-> [InfoHashes |-> InfoHashes(body)], err |-> NoErr]

\* What one handlePacket call returns, and the calls it made on the way.
Returned(response, actionName, err, calls) ==
    [response |-> response, actionName |-> actionName, err |-> err, calls |-> calls]

\* The return for a packet shorter than a header: nothing is written.
ShortPacketAnswered(packet) ==
    Returned(WriteError(<<>>, Zeros(4), errMalformedPacket), "", errMalformedPacket, {})
ShortPacket(packet) == Returned(<<>>, "", errMalformedPacket, {})

\* The guard in front of the switch: any action but connect needs a
\* connection ID that is valid for the source address now.
BadConnectionIDAnnounceOnly(cfg, connID, actionID, ip, t) ==
    actionID = announceActionID /\ ~ ValidConnectionID(connID, ip, t, cfg.PrivateKey)
BadConnectionID(cfg, connID, actionID, ip, t) ==
    actionID # connectActionID /\ ~ ValidConnectionID(connID, ip, t, cfg.PrivateKey)

\* Server.handlePacket(packet, addr) at time t, where mw is what the
\* tracker's middleware does with the request if it is reached.
handlePacket(cfg, packet, ip, t, mw) ==
    IF Len(packet) < 16 THEN ShortPacket(packet)
    ELSE
    LET connID == Slice(packet, 0, 8)
        actionID == Uint32(Slice(packet, 8, 12))
        txID == Slice(packet, 12, 16)
    IN  IF BadConnectionID(cfg, connID, actionID, ip, t)
        THEN Returned(WriteError(<<>>, txID, errBadConnectionID), "",
                      errBadConnectionID, {"ValidConnectionID"})
        ELSE
        CASE actionID = connectActionID ->
               IF connID # initialConnectionID
               THEN Returned(<<>>, "connect", errMalformedPacket, {})
               ELSE Returned(WriteConnectionID(<<>>, txID,
                                 NewConnectionID(ip, t, cfg.PrivateKey)),
                             "connect", NoErr, {"NewConnectionID"})
          [] actionID = announceActionID ->
               LET parsed == parseAnnounce(cfg, packet, ip)
                   handled == HandleAnnounce(parsed.req, mw)
               IN  IF ~ parsed.err.isNil
                   THEN Returned(WriteError(<<>>, txID, parsed.err), "announce",
                                 parsed.err, {"ValidConnectionID", "parseAnnounce"})
                   ELSE IF ~ handled.err.isNil
                   THEN Returned(WriteError(<<>>, txID, handled.err), "announce",
                                 handled.err,
                                 {"ValidConnectionID", "parseAnnounce", "HandleAnnounce"})
                   ELSE Returned(WriteAnnounce(<<>>, txID, handled.resp), "announce",
                                 NoErr,
                                 {"ValidConnectionID", "parseAnnounce", "HandleAnnounce"})
          [] actionID = scrapeActionID ->
               LET parsed == parseScrape(cfg, packet)
                   handled == HandleScrape(parsed.req, mw)
               IN  IF ~ parsed.err.isNil
                   THEN Returned(WriteError(<<>>, txID, parsed.err), "scrape",
                                 parsed.err, {"ValidConnectionID", "parseScrape"})
                   ELSE IF ~ handled.err.isNil
                   THEN Returned(WriteError(<<>>, txID, handled.err), "scrape",
                                 handled.err,
                                 {"ValidConnectionID", "parseScrape", "HandleScrape"})
                   ELSE Returned(WriteScrape(<<>>, txID, handled.resp), "scrape",
                                 NoErr,
                                 {"ValidConnectionID", "parseScrape", "HandleScrape"})
          [] OTHER ->
               Returned(WriteError(<<>>, txID, errUnknownAction), "",
                        errUnknownAction, {"ValidConnectionID"})

-----------------------------------------------------------------------------
(* The server's state before Start, shared by every specification. *)

NoCall == [packet |-> <<>>, ip |-> <<>>, at |-> 0, response |-> <<>>,
           actionName |-> "", err |-> NoErr, calls |-> {}, done |-> FALSE]

InitServer ==
    /\ closing = FALSE
    /\ booted = FALSE
    /\ sock = "none"
    /\ deadline = "none"
    /\ wg = 0
    /\ rd = [pc |-> "new", buffer |-> 0, packet |-> <<>>, ip |-> <<>>,
             result |-> "none"]
    /\ sup = "none"
    /\ workers = <<>>
    /\ finished = {}
    /\ stop = "idle"
    /\ pool = [free |-> <<>>, made |-> 0]
    /\ nread = 0

\* The unit specifications' variables, where they are not used.
NoUnits ==
    /\ pa = [phase |-> "unused"]
    /\ wr = [phase |-> "unused"]
    /\ tp = [phase |-> "unused"]
    /\ bp = [phase |-> "unused"]
    /\ op = [phase |-> "unused"]

InitHandler ==
    /\ config = [PrivateKey |-> "secret", AllowIPSpoofing |-> FALSE]
    /\ now = Epoch2016
    /\ known = {}
    /\ hp = NoCall

-----------------------------------------------------------------------------
(* connection_id.go on its own: mint an ID, then check it, as              *)
(* connection_id_test.go does, with the inputs drawn from bounded sets.    *)

TimeBases == {0, Epoch2016}
MintTimes == {b + d : b \in TimeBases, d \in 0..MaxMintDelta}
CheckTimes(t) ==
    LET b == IF t >= Epoch2016 THEN Epoch2016 ELSE 0
    IN  {b + d : d \in 0..MaxCheckDelta} \cup {b + 420420}

InitCID ==
    /\ cid \in [phase : {"new"}, ip : IPSet, t : MintTimes, key : KeySet,
                 id : {<<>>}, vip : {<<>>}, vt : {0}, vkey : {""}, ok : {FALSE}]
    /\ NoUnits
    /\ InitHandler
    /\ InitServer

\* cid := NewConnectionID(ip, time.Unix(createdAt, 0), key)
Mint ==
    /\ cid.phase = "new"
    /\ cid' = [cid EXCEPT !.phase = "minted",
                          !.id = NewConnectionID(cid.ip, cid.t, cid.key)]
    /\ UNCHANGED <<pa, wr, tp, bp, op, hpVars, srvVars>>

\* got := ValidConnectionID(cid, ip, time.Unix(now, 0), key)
Verify ==
    /\ cid.phase = "minted"
    /\ \E vip \in IPSet, vt \in CheckTimes(cid.t), vkey \in KeySet :
          cid' = [cid EXCEPT !.phase = "checked", !.vip = vip, !.vt = vt,
                             !.vkey = vkey,
                             !.ok = ValidConnectionID(cid.id, vip, vt, vkey)]
    /\ UNCHANGED <<pa, wr, tp, bp, op, hpVars, srvVars>>

NextCID == Mint \/ Verify

SpecCID == InitCID /\ [][NextCID]_vars

\* C1: an ID minted for (ip, t, key) and checked for the same ip and key at
\* time t' is accepted exactly when t - 10 <= t' <= t + 120.
C1_ValidIffInWindow ==
    (cid.phase = "checked" /\ cid.vip = cid.ip /\ cid.vkey = cid.key)
        => (cid.ok <=> (cid.t - 10 <= cid.vt /\ cid.vt <= cid.t + 120))

\* C1 witness: an ID accepted at the last second of its lifetime.
C1_Witness ==
    /\ cid.phase = "checked" /\ cid.vip = cid.ip /\ cid.vkey = cid.key
    /\ cid.vt = cid.t + 120 /\ cid.ok

\* C2: an ID minted for ip and checked with the same key for another source
\* address is rejected, whatever the check time.
C2_OtherSourceRejected ==
    (cid.phase = "checked" /\ cid.vip # cid.ip /\ cid.vkey = cid.key) => ~ cid.ok

\* C2 witness: a fresh ID presented at its mint time from another address.
C2_Witness ==
    /\ cid.phase = "checked" /\ cid.vip # cid.ip /\ cid.vkey = cid.key
    /\ cid.vt = cid.t /\ ~ cid.ok

-----------------------------------------------------------------------------
(* handlePacket on its own: clients at two addresses send datagrams built  *)
(* from the pieces below, and keep the connection IDs they are given.      *)

SrcIPs == {IPLoopback, IPOther}

TxIDs == {<<222, 173, 190, 239>>, <<0, 0, 0, 1>>}

\* Action IDs on the wire: the three requests, the two response-only IDs,
\* and two unknown ones (the second has a non-zero high byte).
WireActions == {0, 1, 2, 3, 4, 5, 16777217}

\* Connection IDs a client may present: the magic one, junk, a current
\* timestamp with a made-up tag, and the IDs the server handed out.
ConnIDChoices ==
    {initialConnectionID, Zeros(8), [i \in 1..8 |-> 255],
     PutUint32(now) \o <<1, 2, 3, 4>>} \cup {k.id : k \in known}

\* The 82 bytes of an announce after the header, then the options.
AnnounceBody(event, ipv4, numWant, options) ==
    [i \in 1..20 |-> i] \o [i \in 1..20 |-> 100 + i] \o Zeros(24)
        \o <<0, 0, 0, event>> \o ipv4 \o Zeros(4) \o numWant \o <<26, 225>> \o options

AnnounceBodies ==
    { AnnounceBody(2, Zeros(4), <<0, 0, 0, 50>>, <<>>),
      AnnounceBody(0, Zeros(4), <<255, 255, 255, 255>>, <<1, 0>>),
      AnnounceBody(4, Zeros(4), <<0, 0, 0, 50>>, <<>>),
      AnnounceBody(1, <<1, 2, 3, 4>>, <<0, 0, 0, 50>>, <<>>),
      AnnounceBody(3, <<58, 58, 97, 98>>, <<0, 0, 0, 50>>, <<>>),
      AnnounceBody(0, Zeros(4), <<0, 0, 0, 0>>, <<2, 3, 47, 97, 98, 0>>),
      AnnounceBody(0, Zeros(4), <<0, 0, 0, 1>>, <<2, 9, 47>>),
      AnnounceBody(0, Zeros(4), <<0, 0, 0, 1>>, <<3>> \o Zeros(15) \o <<1>>),
      AnnounceBody(255, <<1, 2, 3, 4>>, <<0, 0, 0, 1>>, <<2>>),
      Zeros(81),
      Zeros(50) }

ScrapeBodies ==
    { [i \in 1..20 |-> i], [i \in 1..40 |-> i], [i \in 1..21 |-> i], <<>> }

\* The datagrams tried: full packets, and two that are shorter than a header.
Packets ==
    { c \o PutUint32(a) \o tx \o b :
        <<c, a, tx>> \in ConnIDChoices \X WireActions \X TxIDs, b \in {<<>>} }
    \cup { c \o PutUint32(a) \o tx \o b :
             <<c, a, tx>> \in ConnIDChoices \X {1, 2} \X TxIDs,
             b \in AnnounceBodies \cup ScrapeBodies }
    \cup { c \o PutUint32(a) \o tx \o <<7, 7, 7, 7>> :
             <<c, a, tx>> \in ConnIDChoices \X {0, 5} \X TxIDs }
    \cup { <<1, 2, 3, 4, 5, 6, 7, 8>>, initialConnectionID \o Zeros(7) }

InitHandle ==
    /\ cid = [phase |-> "unused"]
    /\ NoUnits
    /\ config \in [PrivateKey : {"secret"}, AllowIPSpoofing : BOOLEAN]
    /\ now = Epoch2016
    /\ known = {}
    /\ hp = NoCall
    /\ InitServer

\* The wall clock moves on between two datagrams.
Tick ==
    /\ ~ hp.done
    /\ now < Epoch2016 + MaxTicks * TickSeconds
    /\ now' = now + TickSeconds
    /\ UNCHANGED <<unitVars, config, known, hp, srvVars>>

\* One datagram goes through handlePacket.
Handle ==
    /\ ~ hp.done
    /\ \E ip \in SrcIPs, packet \in Packets, mw \in TrackerOutcomes :
          LET r == handlePacket(config, packet, ip, now, mw)
          IN  hp' = [packet |-> packet, ip |-> ip, at |-> now,
                     response |-> r.response, actionName |-> r.actionName,
                     err |-> r.err, calls |-> r.calls, done |-> TRUE]
    /\ UNCHANGED <<unitVars, config, now, known, srvVars>>

\* The client takes the response; it keeps the connection ID of a connect
\* response for later requests.
Deliver ==
    /\ hp.done
    /\ known' = IF "NewConnectionID" \in hp.calls /\ Cardinality(known) < MaxKnown
                THEN known \cup {[id |-> Slice(hp.response, 8, 16),
                                  ip |-> hp.ip, at |-> hp.at]}
                ELSE known
    /\ hp' = NoCall
    /\ UNCHANGED <<unitVars, config, now, srvVars>>

NextHandle == Tick \/ Handle \/ Deliver

SpecHandle == InitHandle /\ [][NextHandle]_vars

\* The header fields of the last request, for packets of 16 bytes or more.
ReqConnID == Slice(hp.packet, 0, 8)
ReqAction == Slice(hp.packet, 8, 12)
ReqTxID == Slice(hp.packet, 12, 16)
Handled == hp.done /\ Len(hp.packet) >= 16

\* The error frame for a transaction: action 3, the ID, the text, one NUL.
ErrorFrame(txID, text) == <<0, 0, 0, 3>> \o txID \o text \o <<0>>
TextBadConnectionID ==
    <<98, 97, 100, 32, 99, 111, 110, 110, 101, 99, 116, 105, 111, 110, 32, 73, 68>>
TextMalformedPacket ==
    <<109, 97, 108, 102, 111, 114, 109, 101, 100, 32, 112, 97, 99, 107, 101, 116>>

BodyCalls == {"parseAnnounce", "parseScrape", "HandleAnnounce", "HandleScrape"}

\* C3: a packet of 16 bytes or more whose action is not connect and whose
\* connection ID does not verify for its source at processing time gets the
\* "bad connection ID" error frame, and its body is neither parsed nor handed
\* to the tracker.
C3_InvalidIDNeverReachesTracker ==
    (Handled /\ ReqAction # <<0, 0, 0, 0>>
       /\ ~ ValidConnectionID(ReqConnID, hp.ip, hp.at, config.PrivateKey))
        => /\ hp.response = ErrorFrame(ReqTxID, TextBadConnectionID)
           /\ hp.calls \cap BodyCalls = {}

\* C3 witness: a well-formed scrape whose connection ID was issued to
\* another address is turned away.
C3_Witness ==
    /\ Handled /\ ReqAction = <<0, 0, 0, 2>> /\ Len(hp.packet) = 36
    /\ \E k \in known : k.id = ReqConnID /\ k.ip # hp.ip /\ k.at = hp.at
    /\ hp.response = ErrorFrame(ReqTxID, TextBadConnectionID)

\* C4: a connect carrying the magic connection ID is answered with 16 bytes:
\* action 0, the request's transaction ID and a connection ID that verifies
\* for the same source and key at the same instant; and a later announce or
\* scrape from that source with that ID, inside the ID's lifetime, is not
\* turned away as a bad connection ID.
C4_ConnectYieldsValidID ==
    /\ (Handled /\ ReqAction = <<0, 0, 0, 0>> /\ ReqConnID = initialConnectionID)
          => /\ Len(hp.response) = 16
             /\ Slice(hp.response, 0, 4) = <<0, 0, 0, 0>>
             /\ Slice(hp.response, 4, 8) = ReqTxID
             /\ ValidConnectionID(Slice(hp.response, 8, 16), hp.ip, hp.at,
                                  config.PrivateKey)
    /\ (Handled /\ ReqAction \in {<<0, 0, 0, 1>>, <<0, 0, 0, 2>>}
          /\ \E k \in known : k.id = ReqConnID /\ k.ip = hp.ip /\ hp.at <= k.at + 120)
          => /\ hp.err # errBadConnectionID
             /\ hp.actionName \in {"announce", "scrape"}

\* C4 witness: an announce answered with peers, sent with a connection ID
\* obtained from an earlier connect.
C4_Witness ==
    /\ Handled /\ ReqAction = <<0, 0, 0, 1>>
    /\ \E k \in known : k.id = ReqConnID /\ k.ip = hp.ip /\ k.at < hp.at
    /\ hp.err = NoErr

\* C5 (as claimed): every packet of 16 bytes or more gets a non-empty
\* response.
C5_AlwaysAnswered == Handled => hp.response # <<>>

\* C6 (as claimed): a connect whose connection ID is not the magic value gets
\* the "malformed packet" error frame, and no connection ID is minted.
C6_BadMagicGetsErrorFrame ==
    (Handled /\ ReqAction = <<0, 0, 0, 0>> /\ ReqConnID # initialConnectionID)
        => /\ hp.response = ErrorFrame(ReqTxID, TextMalformedPacket)
           /\ "NewConnectionID" \notin hp.calls

\* C8: every non-empty response starts with a 4-byte big-endian action and
\* then the four transaction ID bytes of the request, unchanged.
C8_ResponseEchoesTxID ==
    (hp.done /\ hp.response # <<>>)
        => /\ Len(hp.packet) >= 16
           /\ Len(hp.response) >= 8
           /\ Slice(hp.response, 0, 4) \in {<<0, 0, 0, a>> : a \in 0..4}
           /\ Slice(hp.response, 4, 8) = ReqTxID

\* C8 witness: a dual-stack announce response carrying the transaction ID.
C8_Witness ==
    /\ Handled /\ Len(hp.response) > 20
    /\ Slice(hp.response, 0, 4) = <<0, 0, 0, 4>>
    /\ Slice(hp.response, 4, 8) = <<222, 173, 190, 239>>

TextMalformedEvent ==
    <<109, 97, 108, 102, 111, 114, 109, 101, 100, 32, 101, 118, 101, 110, 116, 32,
      73, 68>>
TextInternalPrefix ==
    <<105, 110, 116, 101, 114, 110, 97, 108, 32, 101, 114, 114, 111, 114, 32, 111,
      99, 99, 117, 114, 114, 101, 100, 58, 32>>

\* C14: an announce of 16 bytes or more that is shorter than 98 bytes, or
\* whose event byte at offset 83 is above 3, is not handed to the tracker and
\* gets an error frame (action 3) with its transaction ID; with a valid
\* connection ID the reason is "malformed packet" for the short packet and
\* "malformed event ID" for the event.
C14_MalformedAnnounceRejected ==
    (Handled /\ ReqAction = <<0, 0, 0, 1>>
       /\ (Len(hp.packet) < 98 \/ At(hp.packet, 83) > 3))
        => /\ "HandleAnnounce" \notin hp.calls
           /\ Len(hp.response) >= 8
           /\ Slice(hp.response, 0, 4) = <<0, 0, 0, 3>>
           /\ Slice(hp.response, 4, 8) = ReqTxID
           /\ ValidConnectionID(ReqConnID, hp.ip, hp.at, config.PrivateKey)
                 => hp.response =
                       ErrorFrame(ReqTxID, IF Len(hp.packet) < 98
                                           THEN TextMalformedPacket
                                           ELSE TextMalformedEvent)

\* C14 witness: an announce with event 255, sent with a connection ID the
\* server issued, is answered "malformed event ID" although its IPv4 field
\* and its options are malformed too.
C14_Witness ==
    /\ Handled /\ ReqAction = <<0, 0, 0, 1>> /\ Len(hp.packet) = 99
    /\ At(hp.packet, 83) = 255 /\ config.AllowIPSpoofing
    /\ \E k \in known : k.id = ReqConnID /\ k.ip = hp.ip
    /\ hp.response = ErrorFrame(ReqTxID, TextMalformedEvent)

\* C18: an error frame is action 3, the transaction ID, the reason and one
\* NUL; the reason is the text of a ClientError as it is, of the protocol or
\* of the middleware, and "internal error occurred: " and the text for any
\* other error; every error the tracker returns is written as such a frame.
C18_ErrorFrameText ==
    /\ (hp.done /\ ~ hp.err.isNil /\ hp.response # <<>>)
          => hp.response =
                <<0, 0, 0, 3>> \o ReqTxID
                    \o (IF hp.err.client THEN hp.err.msg
                        ELSE TextInternalPrefix \o hp.err.msg)
                    \o <<0>>
    /\ (hp.done /\ ~ hp.err.isNil
          /\ hp.calls \cap {"HandleAnnounce", "HandleScrape"} # {})
          => hp.response # <<>>

\* C18 witness: the middleware fails an announce with an internal error and
\* the client is sent the prefixed text.
C18_Witness ==
    /\ Handled /\ "HandleAnnounce" \in hp.calls
    /\ hp.err = InternalError(MsgRedisDown)
    /\ hp.response = ErrorFrame(ReqTxID, TextInternalPrefix \o MsgRedisDown)

-----------------------------------------------------------------------------
(* server/udp/writer.go: Start, serve, the workers and Stop, one action    *)
(* per step between two points where another goroutine can run.            *)

\* Datagrams that arrive at the socket: two shorter than a header (8 and 15
\* bytes) and a connect.  What handlePacket makes of every other request
\* is checked on its own; the loop sees only whether a response is empty.
Datagrams ==
    { <<1, 2, 3, 4, 5, 6, 7, 8>>,
      initialConnectionID \o <<0, 0, 0, 0>> \o <<222, 173, 190>>,
      initialConnectionID \o <<0, 0, 0, 0>> \o <<222, 173, 190, 239>> }

InitServe ==
    /\ cid = [phase |-> "unused"]
    /\ NoUnits
    /\ InitHandler
    /\ InitServer

\* The buffers the pool holds: b is in it pool.free[b] times.
FreeBuffers == {b \in 1..pool.made : pool.free[b] > 0}

\* pool.Get(): one of the free buffers if there is one, a newly made one
\* otherwise.  The results Get may give.
PoolGet ==
    IF FreeBuffers # {}
    THEN {[buffer |-> b, pool |-> [pool EXCEPT !.free[b] = @ - 1]] : b \in FreeBuffers}
    ELSE {[buffer |-> pool.made + 1,
           pool |-> [free |-> Append(pool.free, 0), made |-> pool.made + 1]]}

\* pool.Put(b)
PoolPutNothing(pl, b) == pl
PoolPut(pl, b) == [pl EXCEPT !.free[b] = @ + 1]

\* Start(): s.wg.Add(1), the goroutine that waits for closing, then serve().
Start ==
    /\ rd.pc = "new"
    /\ wg' = wg + 1
    /\ sup' = "running"
    /\ rd' = [rd EXCEPT !.pc = "boot"]
    /\ UNCHANGED <<unitVars, hpVars, closing, booted, sock, deadline, workers,
                   finished, stop, pool, nread>>

\* The goroutine of Start: it returns once closing is closed.
Supervisor ==
    /\ sup = "running"
    /\ closing
    /\ sup' = "done"
    /\ wg' = wg - 1
    /\ UNCHANGED <<unitVars, hpVars, closing, booted, sock, deadline, rd, workers,
                   finished, stop, pool, nread>>

\* serve(): the address resolves and the socket opens; booting is closed.
Boot ==
    /\ rd.pc = "boot"
    /\ sock' = "open"
    /\ booted' = TRUE
    /\ rd' = [rd EXCEPT !.pc = "check"]
    /\ UNCHANGED <<unitVars, hpVars, closing, deadline, wg, sup, workers, finished,
                   stop, pool, nread>>

\* serve(): ResolveUDPAddr or ListenUDP fails; booting is closed and the
\* error returned.
BootFails ==
    /\ rd.pc = "boot"
    /\ booted' = TRUE
    /\ rd' = [rd EXCEPT !.pc = "returned", !.result = "error"]
    /\ UNCHANGED <<unitVars, hpVars, closing, sock, deadline, wg, sup, workers,
                   finished, stop, pool, nread>>

\* The select at the top of the loop, closing closed: return nil, and the
\* deferred sock.Close() runs.
LoopExit ==
    /\ rd.pc = "check"
    /\ closing
    /\ sock' = "closed"
    /\ rd' = [rd EXCEPT !.pc = "returned", !.result = "nil"]
    /\ UNCHANGED <<unitVars, hpVars, closing, booted, deadline, wg, sup, workers,
                   finished, stop, pool, nread>>

\* The select's default case, then buffer := pool.Get().
LoopGet ==
    /\ rd.pc = "check"
    /\ ~ closing
    /\ \E g \in PoolGet :
          /\ pool' = g.pool
          /\ rd' = [rd EXCEPT !.pc = "deadline", !.buffer = g.buffer]
    /\ UNCHANGED <<unitVars, hpVars, closing, booted, sock, deadline, wg, sup, workers,
                   finished, stop, nread>>

\* sock.SetReadDeadline(time.Now().Add(time.Second))
LoopDeadline ==
    /\ rd.pc = "deadline"
    /\ deadline' = "future"
    /\ rd' = [rd EXCEPT !.pc = "read"]
    /\ UNCHANGED <<unitVars, hpVars, closing, booted, sock, wg, sup, workers,
                   finished, stop, pool, nread>>

\* ReadFromUDP returns a datagram of one byte or more.
ReadDatagram ==
    /\ rd.pc = "read"
    /\ deadline = "future"
    /\ nread < MaxDatagrams
    /\ \E d \in Datagrams :
          rd' = [rd EXCEPT !.pc = "spawn", !.packet = d, !.ip = IPLoopback]
    /\ nread' = nread + 1
    /\ UNCHANGED <<unitVars, hpVars, closing, booted, sock, deadline, wg, sup,
                   workers, finished, stop, pool>>

\* ReadFromUDP returns an empty datagram: the buffer goes back, continue.
ReadEmpty ==
    /\ rd.pc = "read"
    /\ deadline = "future"
    /\ nread < MaxDatagrams
    /\ nread' = nread + 1
    /\ pool' = PoolPut(pool, rd.buffer)
    /\ rd' = [rd EXCEPT !.pc = "check", !.buffer = 0]
    /\ UNCHANGED <<unitVars, hpVars, closing, booted, sock, deadline, wg, sup,
                   workers, finished, stop>>

\* ReadFromUDP returns a timeout (the deadline has passed) or another
\* temporary error: the buffer goes back, continue.
ReadTimeoutRetriesRead ==
    /\ rd.pc = "read"
    /\ UNCHANGED vars
ReadTimeout ==
    /\ rd.pc = "read"
    /\ pool' = PoolPut(pool, rd.buffer)
    /\ rd' = [rd EXCEPT !.pc = "check", !.buffer = 0]
    /\ UNCHANGED <<unitVars, hpVars, closing, booted, sock, deadline, wg, sup,
                   workers, finished, stop, nread>>

\* ReadFromUDP returns an error that is not temporary: the buffer goes
\* back, serve returns the error and the deferred sock.Close() runs.
ReadFails ==
    /\ rd.pc = "read"
    /\ deadline = "future"
    /\ pool' = PoolPut(pool, rd.buffer)
    /\ sock' = "closed"
    /\ rd' = [rd EXCEPT !.pc = "returned", !.buffer = 0, !.result = "error"]
    /\ UNCHANGED <<unitVars, hpVars, closing, booted, deadline, wg, sup, workers,
                   finished, stop, nread>>

\* s.wg.Add(1) and the go statement: a worker owns the buffer.
Spawn ==
    /\ rd.pc = "spawn"
    /\ wg' = wg + 1
    /\ workers' = Append(workers,
                         [pc |-> "handle", packet |-> rd.packet, ip |-> rd.ip,
                          buffer |-> rd.buffer, response |-> <<>>,
                          err |-> NoErr, wrote |-> FALSE, sockOpen |-> FALSE,
                          afterStop |-> (stop = "done")])
    /\ rd' = [rd EXCEPT !.pc = "check", !.buffer = 0, !.packet = <<>>, !.ip = <<>>]
    /\ UNCHANGED <<unitVars, hpVars, closing, booted, sock, deadline, sup, finished,
                   stop, pool, nread>>

\* A worker: response, action, err := s.handlePacket(buffer[:n], addr)
WorkerHandle(i) ==
    /\ workers[i].pc = "handle"
    /\ \E mw \in TrackerOutcomes :
          LET r == handlePacket(config, workers[i].packet, workers[i].ip, now, mw)
          IN  workers' = [workers EXCEPT ![i].pc = "write",
                                         ![i].response = r.response,
                                         ![i].err = r.err]
    /\ UNCHANGED <<unitVars, hpVars, closing, booted, sock, deadline, wg, rd, sup,
                   finished, stop, pool, nread>>

\* A worker: if len(response) > 0 { sock.WriteToUDP(response, addr) }
WorkerWrite(i) ==
    /\ workers[i].pc = "write"
    /\ workers' = [workers EXCEPT
                      ![i].pc = "return",
                      ![i].wrote = (Len(workers[i].response) > 0),
                      ![i].sockOpen = (sock = "open")]
    /\ UNCHANGED <<unitVars, hpVars, closing, booted, sock, deadline, wg, rd, sup,
                   finished, stop, pool, nread>>

\* A worker returns: the deferred pool.Put(buffer), then s.wg.Done().
WorkerReturn(i) ==
    /\ workers[i].pc = "return"
    /\ pool' = PoolPut(pool, workers[i].buffer)
    /\ wg' = wg - 1
    /\ workers' = [workers EXCEPT ![i].pc = "done"]
    /\ finished' = finished \cup {i}
    /\ UNCHANGED <<unitVars, hpVars, closing, booted, sock, deadline, rd, sup, stop,
                   nread>>

\* Stop(): close(s.closing), on a server that has booted.
StopClose ==
    /\ stop = "idle"
    /\ booted /\ sock # "none"
    /\ closing' = TRUE
    /\ stop' = "closed"
    /\ UNCHANGED <<unitVars, hpVars, booted, sock, deadline, wg, rd, sup, workers,
                   finished, pool, nread>>

\* Stop(): s.sock.SetReadDeadline(time.Now())
StopDeadline ==
    /\ stop = "closed"
    /\ deadline' = "past"
    /\ stop' = "wait"
    /\ UNCHANGED <<unitVars, hpVars, closing, booted, sock, wg, rd, sup, workers,
                   finished, pool, nread>>

\* Stop(): s.wg.Wait() returns once the counter is zero.
StopWait ==
    /\ stop = "wait"
    /\ wg = 0
    /\ stop' = "done"
    /\ UNCHANGED <<unitVars, hpVars, closing, booted, sock, deadline, wg, rd, sup,
                   workers, finished, pool, nread>>

WorkerHandles == \E i \in 1..Len(workers) : WorkerHandle(i)
WorkerWrites == \E i \in 1..Len(workers) : WorkerWrite(i)
WorkerReturns == \E i \in 1..Len(workers) : WorkerReturn(i)

Reader ==
    \/ Start \/ Boot \/ BootFails \/ LoopExit \/ LoopGet \/ LoopDeadline
    \/ ReadDatagram \/ ReadEmpty \/ ReadTimeout \/ ReadFails \/ Spawn

Stopper == StopClose \/ StopDeadline \/ StopWait

Next ==
    \/ Reader \/ Supervisor \/ Stopper
    \/ WorkerHandles \/ WorkerWrites \/ WorkerReturns

Spec == InitServe /\ [][Next]_vars

\* The workers that are running: spawned and not yet returned.
InFlight == {i \in 1..Len(workers) : workers[i].pc # "done"}

\* C7: a datagram shorter than 16 bytes yields no response bytes, and its
\* worker writes nothing to the socket.
C7_ShortDatagramDropped ==
    \A i \in 1..Len(workers) :
        (Len(workers[i].packet) < 16 /\ workers[i].pc # "handle")
            => workers[i].response = <<>> /\ ~ workers[i].wrote

\* C7 witness: the worker of an 8-byte datagram has returned without a write.
C7_Witness ==
    \E i \in finished :
        Len(workers[i].packet) = 8 /\ workers[i].response = <<>> /\ ~ workers[i].wrote

-----------------------------------------------------------------------------
(* Scheduling.  The Go scheduler runs every goroutine that can run: the    *)
(* goroutine of Start/serve, the goroutine Start spawns and each worker    *)
(* take a step they can take.  A read that blocks ends at its deadline     *)
(* (ReadTimeout is enabled whenever the reader is in ReadFromUDP).  Whether*)
(* and when Stop is called is up to the caller.                            *)

Worker(i) ==
    /\ i \in 1..Len(workers)
    /\ (WorkerHandle(i) \/ WorkerWrite(i) \/ WorkerReturn(i))

Fairness ==
    /\ WF_vars(Reader)
    /\ WF_vars(Supervisor)
    /\ \A i \in 1..MaxDatagrams : WF_vars(Worker(i))

SpecLive == InitServe /\ [][Next]_vars /\ Fairness

\* serve returned the error of a read that failed for good (not BootFails,
\* which leaves no socket).
ReadFailed == rd.pc = "returned" /\ rd.result = "error" /\ sock = "closed"

\* C11: once Stop has closed the closing channel of a running server, the
\* read loop eventually sees it and serve, and so Start, returns; it returns
\* nil unless a read failed with an error that is not temporary.
C11_ShutdownIsLive ==
    closing ~> (rd.pc = "returned" /\ (rd.result = "nil" \/ ReadFailed))

\* C11 witness: a server that has received a datagram and spawned a worker
\* was stopped, and serve has returned nil.
C11_Witness ==
    /\ closing /\ rd.pc = "returned" /\ rd.result = "nil"
    /\ nread > 0 /\ Len(workers) > 0

\* The holders of buffer b: the read loop between Get and Put or the go
\* statement, and the workers that have not returned.
Holders(b) ==
    (IF rd.buffer = b THEN 1 ELSE 0)
        + Cardinality({i \in InFlight : workers[i].buffer = b})

\* C12: every buffer the pool has made is at any time either in the pool,
\* once, or held by exactly one of the read loop and the running workers:
\* each lease ends with exactly one Put, and no buffer is held twice.
C12_BufferReturnedExactlyOnce ==
    \A b \in 1..pool.made : pool.free[b] + Holders(b) = 1

\* C12 witness: a worker has returned and its buffer is back in the pool,
\* while another worker still holds a different buffer.
C12_Witness ==
    \E i \in finished, j \in InFlight :
        /\ pool.free[workers[i].buffer] = 1
        /\ workers[j].buffer # workers[i].buffer
        /\ pool.free[workers[j].buffer] = 0

-----------------------------------------------------------------------------
(* The Writer on its own: WriteAnnounce on responses with up to MaxPeers   *)
(* peers of each family.                                                   *)

SeqsUpTo(S, n) == UNION {[1..k -> S] : k \in 0..n}

Peer4b == [IP |-> <<192, 168, 1, 7>>, Port |-> 51413]

\* chihaya.AnnounceResponse values as the tracker hands them to the Writer.
WriterResponses ==
    [Interval : {1800000, 1500}, Incomplete : {3}, Complete : {5},
     IPv4Peers : SeqsUpTo({Peer4, Peer4b}, MaxPeers),
     IPv6Peers : SeqsUpTo({Peer6a, Peer6b}, MaxPeers)]

InitWrite ==
    /\ wr \in [phase : {"new"}, txID : TxIDs, resp : WriterResponses,
                buffer : {<<>>}]
    /\ cid = [phase |-> "unused"]
    /\ bp = [phase |-> "unused"]
    /\ op = [phase |-> "unused"]
    /\ pa = [phase |-> "unused"]
    /\ tp = [phase |-> "unused"]
    /\ InitHandler
    /\ InitServer

\* w := NewWriter(connID, txID); w.WriteAnnounce(resp); w.Response()
CallWriteAnnounce ==
    /\ wr.phase = "new"
    /\ wr' = [wr EXCEPT !.phase = "written",
                        !.buffer = WriteAnnounce(<<>>, wr.txID, wr.resp)]
    /\ UNCHANGED <<cid, pa, tp, bp, op, hpVars, srvVars>>

NextWrite == CallWriteAnnounce

SpecWrite == InitWrite /\ [][NextWrite]_vars

\* C13: WriteAnnounce writes the dual-stack frame (action 4, the two peer
\* counts at offsets 20 and 24, then the peers) when the response has one
\* IPv6 peer or more, and otherwise the BEP 15 frame (action 1, the IPv4
\* peers straight after the 20-byte head, no counts).
C13_DualStackIffIPv6Peers ==
    (wr.phase = "written") =>
        LET n4 == Len(wr.resp.IPv4Peers)
            n6 == Len(wr.resp.IPv6Peers)
            out == wr.buffer
        IN  IF n6 >= 1
            THEN /\ Slice(out, 0, 4) = <<0, 0, 0, 4>>
                 /\ Len(out) = 28 + 6 * n4 + 18 * n6
                 /\ Slice(out, 20, 24) = <<0, 0, 0, n4>>
                 /\ Slice(out, 24, 28) = <<0, 0, 0, n6>>
                 /\ Slice(out, 28 + 6 * n4, 44 + 6 * n4) = wr.resp.IPv6Peers[1].IP
            ELSE /\ Slice(out, 0, 4) = <<0, 0, 0, 1>>
                 /\ Len(out) = 20 + 6 * n4
                 /\ (n4 >= 1 => Slice(out, 20, 24) = wr.resp.IPv4Peers[1].IP)

\* C13 witness: a response with exactly one IPv6 peer and two IPv4 peers goes
\* out as a dual-stack frame.
C13_Witness ==
    /\ wr.phase = "written"
    /\ Len(wr.resp.IPv6Peers) = 1 /\ Len(wr.resp.IPv4Peers) = 2
    /\ Slice(wr.buffer, 0, 4) = <<0, 0, 0, 4>>

-----------------------------------------------------------------------------
(* parseAnnounce and handleOptionalParameters on their own, on announce    *)
(* packets that vary the num_want field, the IPv4 field and the options.   *)

\* Source addresses as ReadFromUDP reports them: 4-byte, the 16-byte form
\* of an IPv4 address, and an IPv6 address.
ParseSources == {IPLoopback, IPLoopback16, Peer6b.IP}

\* The bytes tried in each position of num_want.
NumWantBytes == {0, 1, 127, 128, 255}

\* The bytes tried in each position of a short option section: the four
\* option types and an unknown one.
OptionBytes == {0, 1, 2, 3, 9}

\* "2001:db8::abcd:1", an IPv6 address in text of 16 characters
IPv6Text16 == <<50, 48, 48, 49, 58, 100, 98, 56, 58, 58, 97, 98, 99, 100, 58, 49>>

\* Option sections with an IPv6 option of 17 bytes (type and address), alone
\* and followed by more bytes, and with URL-data.
LongOptions ==
    { <<3>> \o Peer6b.IP,
      <<3>> \o IPv6Text16,
      <<3>> \o Zeros(16),
      <<3>> \o Peer6b.IP \o <<0, 0>>,
      <<3>> \o Peer6b.IP \o <<0, 0, 0>>,
      <<3>> \o IPv6Text16 \o <<0, 0, 0>>,
      <<3>> \o Zeros(16) \o <<1, 1, 1, 0>>,
      <<3>> \o Zeros(16) \o <<2, 200, 0, 0>>,
      <<1, 3>> \o IPv6Text16 \o <<1, 1, 3>>,
      <<2, 3, 47, 97, 98, 0>>,
      <<2, 2, 3, 3, 0>>,
      <<2, 4, 47, 63, 97, 61, 1, 1, 0>>,
      <<2, 250>> \o Zeros(20) }

\* The IPv4 fields tried: empty, two binary addresses, "::ab" and "1::2".
IPv4Fields ==
    { Zeros(4), <<1, 2, 3, 4>>, <<10, 0, 0, 2>>, <<0, 0, 0, 1>>,
      <<58, 58, 97, 98>>, <<49, 58, 58, 50>> }

AnnouncePacket(body) == Zeros(8) \o <<0, 0, 0, 1>> \o <<222, 173, 190, 239>> \o body

ParsePackets ==
    { AnnouncePacket(AnnounceBody(0, Zeros(4), nw, <<>>)) :
        nw \in [1..4 -> NumWantBytes] }
    \cup { AnnouncePacket(AnnounceBody(e, f, <<0, 0, 0, 50>>, <<>>)) :
             e \in {0, 3}, f \in IPv4Fields }
    \cup { AnnouncePacket(AnnounceBody(2, Zeros(4), <<0, 0, 0, 50>>, o)) :
             o \in SeqsUpTo(OptionBytes, MaxOptionBytes) \cup LongOptions }

ParseInputs ==
    { <<k, ip>> \in ParsePackets \X ParseSources :
        ip = IPLoopback \/ (Len(k) = 98 /\ Slice(k, 92, 96) = <<0, 0, 0, 50>>) }

InitParse ==
    /\ \E input \in ParseInputs, spoof \in BOOLEAN :
          pa = [phase |-> "new",
                cfg |-> [PrivateKey |-> "secret", AllowIPSpoofing |-> spoof],
                packet |-> input[1], ip |-> input[2],
                req |-> NoRequest, err |-> NoErr,
                opts |-> OptionsResult(NilIP, NoErr, 0, 0, 0)]
    /\ cid = [phase |-> "unused"]
    /\ bp = [phase |-> "unused"]
    /\ op = [phase |-> "unused"]
    /\ wr = [phase |-> "unused"]
    /\ tp = [phase |-> "unused"]
    /\ InitHandler
    /\ InitServer

\* request, err = parseAnnounce(s.config, packet, addr.IP)
CallParseAnnounce ==
    /\ pa.phase = "new"
    /\ LET r == parseAnnounce(pa.cfg, pa.packet, pa.ip)
       IN  pa' = [pa EXCEPT !.phase = "parsed", !.req = r.req, !.err = r.err]
    /\ UNCHANGED <<cid, wr, tp, bp, op, hpVars, srvVars>>

\* ipv6, params, err := handleOptionalParameters(cfg, packet)
CallHandleOptionalParameters ==
    /\ pa.phase = "parsed"
    /\ pa' = [pa EXCEPT !.phase = "options",
                        !.opts = handleOptionalParameters(pa.cfg, pa.packet)]
    /\ UNCHANGED <<cid, wr, tp, bp, op, hpVars, srvVars>>

NextParse == CallParseAnnounce \/ CallHandleOptionalParameters

SpecParse == InitParse /\ [][NextParse]_vars

\* The source address in 4-byte form when it has one.
SourceIPv4(ip) == IF ip = IPLoopback16 THEN IPLoopback ELSE ip

\* C15 (as claimed): for an announce without options, with spoofing allowed
\* and a non-zero IPv4 field, the request decodes and its IPv4 is the four
\* bytes of the field; in every other case its IPv4 is the source address,
\* in 4-byte form when it has one.
C15_SpoofedIPv4IsPacketBytes ==
    (pa.phase # "new" /\ Len(pa.packet) = 98 /\ At(pa.packet, 83) <= 3)
        => LET field == Slice(pa.packet, 84, 88)
           IN  /\ pa.err.isNil
               /\ pa.req.IPv4 = IF pa.cfg.AllowIPSpoofing /\ field # Zeros(4)
                                 THEN field
                                 ELSE SourceIPv4(pa.ip)

\* C16 (as claimed): an announce of 115 bytes whose option section is the
\* type byte 3 and 16 address bytes decodes without error; with spoofing
\* allowed and a non-zero address the request's IPv6 is that address; and
\* the parser ends at offset 115, the byte after the address.
C16_IPv6OptionIs17Bytes ==
    (pa.phase = "options" /\ Len(pa.packet) = 115 /\ At(pa.packet, 98) = 3)
        => LET addr == Slice(pa.packet, 99, 115)
           IN  /\ pa.err.isNil
               /\ pa.opts.err.isNil
               /\ (pa.cfg.AllowIPSpoofing /\ addr # Zeros(16))
                     => pa.req.IPv6 = addr
               /\ pa.opts.index = 115

\* The option at offset i of the packet says it extends past the packet's
\* end: URL-data without its length byte or without all its data bytes, an
\* IPv6 option without its 16 address bytes.
Overruns(packet, i) ==
    /\ i < Len(packet)
    /\ \/ At(packet, i) = 3 /\ i + 17 > Len(packet)
       \/ At(packet, i) = 2 /\ i + 2 > Len(packet)
       \/ At(packet, i) = 2 /\ i + 2 <= Len(packet)
             /\ i + 2 + At(packet, i + 1) > Len(packet)

\* handleOptionalParameters reads no offset at or after len(packet).
ReadsInBounds == pa.phase = "options" => pa.opts.top < Len(pa.packet)

\* C17 (as claimed): on a packet of 98 bytes or more handleOptionalParameters
\* reads no offset at or after len(packet), and when the option it stops at
\* extends past the end of the packet it returns "malformed packet".
C17_OptionsStayInBounds ==
    (pa.phase = "options" /\ Len(pa.packet) >= 98)
        => /\ ReadsInBounds
           /\ Overruns(pa.packet, pa.opts.index)
                 => pa.opts.err = ClientError(TextMalformedPacket)

\* C20: the decoded num_want is the wire value at offsets 92..96 when that is
\* positive as a two's-complement i32, and 0 when it is zero or has its top
\* bit set; it is never negative.
C20_NumWantClamped ==
    (pa.phase # "new" /\ pa.err.isNil)
        => LET b == Slice(pa.packet, 92, 96)
           IN  /\ pa.req.NumWant >= 0
               /\ pa.req.NumWant =
                     IF b[1] >= 128 THEN 0
                     ELSE b[1] * 16777216 + b[2] * 65536 + b[3] * 256 + b[4]

\* C20 witness: the wire value 0xFFFFFF80 (-128) is decoded as 0.
C20_Witness ==
    /\ pa.phase = "parsed" /\ Len(pa.packet) = 98
    /\ Slice(pa.packet, 92, 96) = <<255, 255, 255, 128>>
    /\ pa.err.isNil /\ pa.req.NumWant = 0

\* The packet's option section starts with a URL-data option that
\* handleOptionalParameters accepts: the type byte, the length byte and all
\* the data bytes are in the packet.
URLDataAccepted(packet) ==
    /\ Len(packet) >= 100
    /\ At(packet, 98) = optionURLData
    /\ 98 + 2 + At(packet, 99) <= Len(packet)

\* C22 (as claimed): after a URL-data option at offset 98 with length byte L
\* the parser resumes at 98 + 2 + L: it stops at no offset inside the
\* option, its results are those of the loop started at 98 + 2 + L, and it
\* returns no error when the option ends the packet or is followed by
\* end-of-options.
C22_URLDataResumesAfterData ==
    (pa.phase = "options" /\ URLDataAccepted(pa.packet))
        => LET next == 98 + 2 + At(pa.packet, 99)
               claimed == OptionsLoop(pa.cfg, pa.packet, next, NilIP, 1, 99)
           IN  /\ pa.opts.index >= next
               /\ pa.opts.err = claimed.err
               /\ pa.opts.ipv6 = claimed.ipv6
               /\ (next = Len(pa.packet) \/ At(pa.packet, next) = optionEndOfOptions)
                     => pa.opts.err.isNil

-----------------------------------------------------------------------------
(* tracker/tracker.go: the pool of AnnounceResponse objects.  A peer list  *)
(* is a Go slice: its length and its backing array, which [:0] keeps.      *)

PeerSlice(n, array) == [len |-> n, array |-> array]

\* The peers of a slice: the first len elements of its array.
Peers(sl) == SubSeq(sl.array, 1, sl.len)

\* append(sl, ps...): in place while the capacity lasts, else a new array.
AppendPeers(sl, ps) ==
    LET n == sl.len + Len(ps)
    IN  IF n <= Len(sl.array)
        THEN PeerSlice(n, Peers(sl) \o ps \o SubSeq(sl.array, n + 1, Len(sl.array)))
        ELSE PeerSlice(n, Peers(sl) \o ps)

\* &chihaya.AnnounceResponse{}, what responsePool.New makes
ZeroResponse ==
    [Compact |-> FALSE, Complete |-> 0, Incomplete |-> 0, Interval |-> 0,
     MinInterval |-> 0, IPv4Peers |-> PeerSlice(0, <<>>),
     IPv6Peers |-> PeerSlice(0, <<>>)]

\* A nil *chihaya.AnnounceResponse
NilResponse == [nil |-> TRUE]

\* t.handleAnnounce(t.cfg, req, resp): the chain writes what it found into
\* the response it is given, appending the peers.
Chain(resp, mw) ==
    [Compact |-> TRUE, Complete |-> mw.announce.Complete,
     Incomplete |-> mw.announce.Incomplete, Interval |-> mw.announce.Interval,
     MinInterval |-> 900000,
     IPv4Peers |-> AppendPeers(resp.IPv4Peers, mw.announce.IPv4Peers),
     IPv6Peers |-> AppendPeers(resp.IPv6Peers, mw.announce.IPv6Peers)]

\* The assignments of ReturnAnnounceResponse.
ResetKeepsIPv6Peers(resp) ==
    [Compact |-> FALSE, Complete |-> 0, Incomplete |-> 0, Interval |-> 0,
     MinInterval |-> 0, IPv4Peers |-> PeerSlice(0, resp.IPv4Peers.array),
     IPv6Peers |-> resp.IPv6Peers]
Reset(resp) ==
    [Compact |-> FALSE, Complete |-> 0, Incomplete |-> 0, Interval |-> 0,
     MinInterval |-> 0, IPv4Peers |-> PeerSlice(0, resp.IPv4Peers.array),
     IPv6Peers |-> PeerSlice(0, resp.IPv6Peers.array)]

\* Tracker.ReturnAnnounceResponse(resp) on the pool's contents.
ReturnAnnounceResponse(responsePool, resp) ==
    IF resp = NilResponse THEN responsePool
    ELSE Append(responsePool, Reset(resp))

RemoveAt(seq, i) == SubSeq(seq, 1, i - 1) \o SubSeq(seq, i + 1, Len(seq))

InitTracker ==
    /\ tp = [phase |-> "run", responsePool |-> <<>>, held |-> <<>>,
             passed |-> ZeroResponse, last |-> "", before |-> <<>>]
    /\ cid = [phase |-> "unused"]
    /\ bp = [phase |-> "unused"]
    /\ op = [phase |-> "unused"]
    /\ pa = [phase |-> "unused"]
    /\ wr = [phase |-> "unused"]
    /\ InitHandler
    /\ InitServer

\* responsePool.Get() finds a pooled response, and the chain fills it.
HandleAnnounceReuses ==
    /\ tp.responsePool # <<>>
    /\ \E i \in 1..Len(tp.responsePool), mw \in TrackerOutcomes :
          LET resp == tp.responsePool[i]
          IN  tp' = [tp EXCEPT !.responsePool = RemoveAt(@, i),
                               !.held = Append(@, Chain(resp, mw)),
                               !.passed = resp,
                               !.last = "HandleAnnounce",
                               !.before = <<>>]
    /\ UNCHANGED <<cid, pa, wr, bp, op, hpVars, srvVars>>

\* responsePool.Get() finds the pool empty and calls New.
HandleAnnounceAllocates ==
    /\ tp.responsePool = <<>>
    /\ Len(tp.held) < MaxResponses
    /\ \E mw \in TrackerOutcomes :
          tp' = [tp EXCEPT !.held = Append(@, Chain(ZeroResponse, mw)),
                           !.passed = ZeroResponse,
                           !.last = "HandleAnnounce",
                           !.before = <<>>]
    /\ UNCHANGED <<cid, pa, wr, bp, op, hpVars, srvVars>>

\* A caller gives back a response it holds, and holds it no longer.
ReturnHeld ==
    /\ \E i \in 1..Len(tp.held) :
          tp' = [tp EXCEPT
                    !.responsePool = ReturnAnnounceResponse(@, tp.held[i]),
                    !.held = RemoveAt(@, i),
                    !.last = "ReturnAnnounceResponse",
                    !.before = <<>>]
    /\ UNCHANGED <<cid, pa, wr, bp, op, hpVars, srvVars>>

\* ReturnAnnounceResponse(nil)
ReturnNil ==
    /\ tp.last # "ReturnAnnounceResponse(nil)"
    /\ tp' = [tp EXCEPT
                 !.responsePool = ReturnAnnounceResponse(@, NilResponse),
                 !.last = "ReturnAnnounceResponse(nil)",
                 !.before = tp.responsePool]
    /\ UNCHANGED <<cid, pa, wr, bp, op, hpVars, srvVars>>

NextTracker ==
    HandleAnnounceReuses \/ HandleAnnounceAllocates \/ ReturnHeld \/ ReturnNil

SpecTracker == InitTracker /\ [][NextTracker]_vars

\* The zero state of a response: no flag, no counts, no peers.
IsZero(resp) ==
    /\ resp.Compact = FALSE
    /\ resp.Complete = 0 /\ resp.Incomplete = 0
    /\ resp.Interval = 0 /\ resp.MinInterval = 0
    /\ resp.IPv4Peers.len = 0 /\ resp.IPv6Peers.len = 0

\* C19: every response in the tracker's pool is in the zero state, and so
\* is every response HandleAnnounce passes to the chain; and
\* ReturnAnnounceResponse(nil) leaves the pool as it was.
C19_PooledResponsesAreZero ==
    /\ \A i \in 1..Len(tp.responsePool) : IsZero(tp.responsePool[i])
    /\ IsZero(tp.passed)
    /\ (tp.last = "ReturnAnnounceResponse(nil)") => tp.responsePool = tp.before

\* C19 witness: HandleAnnounce passes the chain a response that carried two
\* IPv6 peers in an earlier announce; it is in the zero state, with the old
\* array behind its empty peer list.
C19_Witness ==
    /\ tp.last = "HandleAnnounce"
    /\ IsZero(tp.passed)
    /\ Len(tp.passed.IPv6Peers.array) = 2

-----------------------------------------------------------------------------
(* bytepool and the reads of serve on it: a slice with its length and its  *)
(* capacity, Get and Put, and ReadFromUDP filling the slice it is given.   *)

\* Datagrams one run of the read loop receives.
MaxReads == 3

\* serve(): pool := bytepool.New(2048), the capacity of a read buffer
ReadBufferCapacity == 2048

\* A byte slice: its length, its capacity, and the bytes written so far at
\* the start of its backing array.
MakeSlice(length, capacity) == [len |-> length, cap |-> capacity, array |-> <<>>]

\* bp.Pool.New of bytepool.New(capacity): make([]byte, 0, capacity)
NewSlice(capacity) == MakeSlice(0, capacity)

\* b[:n]
Reslice(b, n) == [b EXCEPT !.len = n]

\* bp.Get(): a slice Put earlier, or one from New when sync.Pool has none
\* or has dropped them.  The results Get may give.
BytePoolGet(free, capacity) ==
    { [buffer |-> free[i],
       free |-> SubSeq(free, 1, i - 1) \o SubSeq(free, i + 1, Len(free))] :
         i \in 1..Len(free) }
    \cup { [buffer |-> NewSlice(capacity), free |-> free] }

\* bp.Put(b): b = b[:0], then Pool.Put(b)
BytePoolPut(free, b) == Append(free, Reslice(b, 0))

\* n, addr, err := sock.ReadFromUDP(b) on datagram d, without error: the
\* first len(b) bytes of d are copied into b, and n is their number.
ReadFromUDP(b, d) ==
    LET n == IF Len(d) < b.len THEN Len(d) ELSE b.len
    IN  [n |-> n,
         buffer |-> [b EXCEPT !.array = SubSeq(d, 1, n)
                                           \o SubSeq(@, n + 1, Len(@))]]

\* The bytes of b[:n]
SliceBytes(b, n) == SubSeq(b.array, 1, n)

\* Datagrams that arrive: empty, of 1, 8, 16 and 2048 bytes.
ReadDatagrams ==
    { <<>>, <<7>>, <<1, 2, 3, 4, 5, 6, 7, 8>>,
      initialConnectionID \o <<0, 0, 0, 0>> \o <<222, 173, 190, 239>>,
      [i \in 1..ReadBufferCapacity |-> i % 256] }

InitRead ==
    /\ bp = [phase |-> "run", pc |-> "get", free |-> <<>>,
             buffer |-> NewSlice(0), n |-> 0,
             got |-> <<>>, packets |-> <<>>]
    /\ cid = [phase |-> "unused"]
    /\ pa = [phase |-> "unused"]
    /\ wr = [phase |-> "unused"]
    /\ tp = [phase |-> "unused"]
    /\ op = [phase |-> "unused"]
    /\ InitHandler
    /\ InitServer

\* serve(): buffer := pool.Get()
ReadGet ==
    /\ bp.pc = "get"
    /\ Len(bp.got) < MaxReads
    /\ \E g \in BytePoolGet(bp.free, ReadBufferCapacity) :
          bp' = [bp EXCEPT !.pc = "read", !.buffer = g.buffer, !.free = g.free]
    /\ UNCHANGED <<cid, pa, wr, tp, op, hpVars, srvVars>>

\* serve(): n, addr, err := sock.ReadFromUDP(buffer), a datagram arriving
\* before the deadline.
ReadPacket ==
    /\ bp.pc = "read"
    /\ \E d \in ReadDatagrams :
          LET r == ReadFromUDP(bp.buffer, d)
          IN  bp' = [bp EXCEPT !.pc = "branch", !.buffer = r.buffer, !.n = r.n,
                               !.got = Append(@, d)]
    /\ UNCHANGED <<cid, pa, wr, tp, op, hpVars, srvVars>>

\* serve(): if n == 0 the buffer goes back and the loop continues; else a
\* worker is spawned, calls handlePacket(buffer[:n], addr) and, as it
\* returns, puts the buffer back.  bp.packets are the packets the workers
\* have passed to handlePacket.
ReadBranch ==
    /\ bp.pc = "branch"
    /\ bp' = [bp EXCEPT
                 !.pc = "get",
                 !.free = BytePoolPut(@, bp.buffer),
                 !.buffer = NewSlice(0),
                 !.packets = IF bp.n = 0 THEN @
                             ELSE Append(@, SliceBytes(bp.buffer, bp.n))]
    /\ UNCHANGED <<cid, pa, wr, tp, op, hpVars, srvVars>>

NextRead == ReadGet \/ ReadPacket \/ ReadBranch

SpecRead == InitRead /\ [][NextRead]_vars

\* The datagrams of one byte or more among ds, in order.
RECURSIVE NonEmpty(_)
NonEmpty(ds) ==
    IF ds = <<>> THEN <<>>
    ELSE IF Len(Head(ds)) >= 1 THEN <<Head(ds)>> \o NonEmpty(Tail(ds))
         ELSE NonEmpty(Tail(ds))

\* Every slice the pool hands out or holds has length 0, whatever its
\* capacity.
PooledSlicesAreEmpty ==
    bp.phase = "run"
        => /\ \A i \in 1..Len(bp.free) : bp.free[i].len = 0
           /\ bp.pc = "read" => (bp.buffer.len = 0
                                   /\ bp.buffer.cap = ReadBufferCapacity)

\* C21 (as claimed): between two iterations of the read loop, the packets
\* the workers have passed to handlePacket are exactly the datagrams of 1 to
\* 2048 bytes received so far, one worker for each, with all their bytes.
C21_EveryDatagramReachesAWorker ==
    (bp.phase = "run" /\ bp.pc = "get")
        => bp.packets = NonEmpty(bp.got)

-----------------------------------------------------------------------------
(* handleOptionalParameters run one loop iteration at a time, on the       *)
(* announce packets of the parser's own specification.                     *)

\* case optionURLData: optionStartIndex += 1 + length
URLDataAdvanceLengthOnly(length) == length
URLDataAdvance(length) == 1 + length

\* The offsets of the packet where an IPv6 option with all its 19 bytes
\* before the packet's last byte can start.
IPv6Windows(packet) ==
    {i \in 98..(Len(packet) - 20) : At(packet, i) = optionIPv6}

\* net.ParseIP(string(ipv6bytes)).To16() for the IPv6 option at each such
\* offset: a function of the packet alone, worked out once per packet.
ParsedIPv6(packet) ==
    [i \in IPv6Windows(packet) |-> To16(ParseIP(Slice(packet, i + 1, i + 17)))]

\* One evaluation of the loop condition and, when it holds, one pass through
\* the loop body, from the locals st: the locals afterwards.  steps counts
\* the passes through the body, top is the highest offset read, st.parsed
\* is ParsedIPv6(packet).
OptionsIteration(cfg, packet, st) ==
    LET i == st.index
        option == At(packet, i)
    IN  IF ~ (i < Len(packet) - 1)
        THEN [st EXCEPT !.phase = "returned"]
        ELSE
        CASE option = optionEndOfOptions ->
               [st EXCEPT !.phase = "returned", !.steps = @ + 1, !.top = i]
          [] option = optionNOP ->
               [st EXCEPT !.index = i + 1, !.steps = @ + 1, !.top = i]
          [] option = optionURLData ->
               IF i + 1 > Len(packet) - 1
               THEN [st EXCEPT !.phase = "returned", !.err = errMalformedPacket,
                               !.steps = @ + 1, !.top = i]
               ELSE IF i + 1 + At(packet, i + 1) > Len(packet) - 1
                    THEN [st EXCEPT !.phase = "returned",
                                    !.err = errMalformedPacket,
                                    !.steps = @ + 1, !.top = i + 1]
                    ELSE [st EXCEPT
                             !.index = i + URLDataAdvance(At(packet, i + 1)),
                             !.steps = @ + 1, !.top = i + 1]
          [] option = optionIPv6 ->
               IF i + 19 > Len(packet) - 1
               THEN [st EXCEPT !.phase = "returned", !.err = errMalformedPacket,
                               !.steps = @ + 1, !.top = i]
               ELSE IF cfg.AllowIPSpoofing /\ Slice(packet, i + 1, i + 17) # emptyIPv6
                    THEN IF st.parsed[i] = NilIP
                         THEN [st EXCEPT !.phase = "returned", !.ipv6 = NilIP,
                                         !.err = errMalformedIP,
                                         !.steps = @ + 1, !.top = i + 16]
                         ELSE [st EXCEPT
                                  !.index = i + 19,
                                  !.ipv6 = st.parsed[i],
                                  !.steps = @ + 1, !.top = i + 16]
                    ELSE [st EXCEPT !.index = i + 19, !.steps = @ + 1,
                                    !.top = i + 16]
          [] OTHER ->
               [st EXCEPT !.phase = "returned", !.steps = @ + 1, !.top = i]

InitOptions ==
    /\ \E packet \in ParsePackets, spoof \in BOOLEAN :
          op = [phase |-> "called",
                cfg |-> [PrivateKey |-> "secret", AllowIPSpoofing |-> spoof],
                packet |-> packet, parsed |-> ParsedIPv6(packet),
                ipv6 |-> NilIP, err |-> NoErr, index |-> 98, steps |-> 0,
                top |-> 97]
    /\ cid = [phase |-> "unused"]
    /\ pa = [phase |-> "unused"]
    /\ wr = [phase |-> "unused"]
    /\ tp = [phase |-> "unused"]
    /\ bp = [phase |-> "unused"]
    /\ InitHandler
    /\ InitServer

\* if len(packet) <= 98 { return }; optionStartIndex := 98
OptionsEnter ==
    /\ op.phase = "called"
    /\ op' = [op EXCEPT !.phase = IF Len(op.packet) <= 98 THEN "returned"
                                  ELSE "loop"]
    /\ UNCHANGED <<cid, pa, wr, tp, bp, hpVars, srvVars>>

\* The loop condition and one pass through the body.  The passes are
\* counted up to len(packet).
OptionsStep ==
    /\ op.phase = "loop"
    /\ op.steps < Len(op.packet)
    /\ op' = OptionsIteration(op.cfg, op.packet, op)
    /\ UNCHANGED <<cid, pa, wr, tp, bp, hpVars, srvVars>>

NextOptions == OptionsEnter \/ OptionsStep

\* The goroutine that called handleOptionalParameters keeps running.
SpecOptions == InitOptions /\ [][NextOptions]_vars /\ WF_vars(NextOptions)

\* Run to its end, the loop has the results of handleOptionalParameters.
OptionsStepsAgree ==
    op.phase = "returned"
        => LET r == handleOptionalParameters(op.cfg, op.packet)
           IN  /\ op.ipv6 = r.ipv6 /\ op.err = r.err /\ op.index = r.index
               /\ op.steps = r.steps /\ op.top = r.top

\* Every pass through the loop body returns or strictly increases
\* optionStartIndex, and the count of passes never reaches its cap.
OptionsAdvance ==
    [][(op.phase = "loop" /\ op'.phase = "loop")
          => (op'.index > op.index /\ op'.steps < Len(op.packet))]_vars

\* C23: handleOptionalParameters returns on every packet, after at most
\* len(packet) - 98 passes through its loop body.
C23_OptionsLoopTerminates ==
    <>(op.phase = "returned" /\ op.steps <= Len(op.packet) - 98)

\* C23 witness: a URL-data option whose length byte is 0 advanced the loop
\* by one byte, to the length byte, where it returned after two passes.
C23_Witness ==
    /\ op.phase = "returned"
    /\ Len(op.packet) = 101
    /\ At(op.packet, 98) = optionURLData /\ At(op.packet, 99) = 0
    /\ op.index = 99 /\ op.steps = 2 /\ op.err.isNil

=============================================================================
